---- MODULE Spec2Model ----
(***************************************************************************)
(* Model of infra/__main__.py, the Pulumi deployment script of VideoLM.     *)
(* The script runs top to bottom: it zips infra/custom_environment into    *)
(* infra/custom_environment.zip, hashes the archive, declares the          *)
(* execution environment, walks the project tree to collect source_files,  *)
(* and declares the application source and the custom application.         *)
(*                                                                         *)
(* Paths are sequences of parts, as pathlib's Path.parts gives them; an    *)
(* absolute path starts with the part "/".                                 *)
(***************************************************************************)
EXTENDS Integers, Sequences, FiniteSets, TLC

VARIABLES
    pc,                   \* the statement the interpreter is about to run
    failedAt,             \* the statement that raised, "none" while none has
    scriptFile,           \* __file__, the absolute path of the script
    tree,                 \* the regular files of the project before the run
    mtime,                \* modification time of every file of tree
    zipDisk,              \* the file at zip_path: [exists, bytes]
    zipf,                 \* the ZipFile object: [open, filelist]
    envSeen,              \* paths env_dir.rglob("*") has yielded so far
    docker_context_path,
    docker_context_hash,
    resources,            \* the resources registered with the engine, in order
    exports,              \* the stack outputs exported, in order
    source_files,
    seen,                 \* paths application_path.glob("**/*") has yielded
    run,                  \* "first" or "second" execution of the script
    prevArchive,          \* the archive bytes the previous execution left
    prevHash              \* the docker_context_hash of the previous execution

vars == <<pc, failedAt, scriptFile, tree, mtime, zipDisk, zipf, envSeen,
          docker_context_path, docker_context_hash, resources, exports,
          source_files, seen, run, prevArchive, prevHash>>

\* At most this many files beside the script itself are in the project tree.
MaxFiles == 2

\* The modification times a file can carry.
MTimes == {1, 2}

--------------------------------------------------------------------------
(* pathlib *)

Last(p) == p[Len(p)]

Parent(p) == SubSeq(p, 1, Len(p) - 1)

\* p lies strictly below the directory base
IsUnder(p, base) ==
    /\ Len(p) > Len(base)
    /\ SubSeq(p, 1, Len(base)) = base

relative_to(p, base) == SubSeq(p, Len(base) + 1, Len(p))

PartSet(p) == {p[i] : i \in 1..Len(p)}

RECURSIVE JoinParts(_)
JoinParts(parts) ==
    IF Len(parts) = 0 THEN ""
    ELSE IF Len(parts) = 1 THEN parts[1]
    ELSE parts[1] \o "/" \o JoinParts(Tail(parts))

\* Path.as_posix() and str(Path) on a POSIX system
as_posix(p) ==
    IF Len(p) = 0 THEN "."
    ELSE IF p[1] = "/" THEN "/" \o JoinParts(Tail(p))
    ELSE JoinParts(p)

--------------------------------------------------------------------------
(* The locations the script computes from __file__ *)

BASE_DIR == Parent(scriptFile)

env_dir == BASE_DIR \o <<"custom_environment">>

zip_path == BASE_DIR \o <<"custom_environment.zip">>

application_path == Parent(BASE_DIR)

--------------------------------------------------------------------------
(* The file system *)

\* Where the repository can be checked out: __file__ is <checkout>/infra/__main__.py
ScriptLocations ==
    { <<"/", "srv", "videolm", "infra", "__main__.py">>,
      <<"/", "srv", "dist", "videolm", "infra", "__main__.py">> }

\* Files a project tree may hold, relative to the project root
Candidates ==
    { <<"app.py">>,
      <<"frontend", "build-app.sh">>,
      <<"frontend", "dist", "app.js">>,
      <<"infra", "build-app.sh">>,
      <<"infra", "custom_environment", "Dockerfile">>,
      <<"infra", "custom_environment", "start-app.sh">>,
      <<"infra", "custom_environment", "sub", "run.sh">> }

\* An archive a previous deployment left at zip_path
StaleArchive ==
    << [kind |-> "local", name |-> "old.txt", date_time |-> 1, data |-> <<"deflate", "old.txt">>],
       [kind |-> "central", name |-> "old.txt", date_time |-> 1, data |-> <<>>],
       [kind |-> "eocd", name |-> "", date_time |-> 0, data |-> <<>>] >>

\* The regular files that exist now
Files == tree \cup (IF zipDisk.exists THEN {zip_path} ELSE {})

Ancestors(p) == {SubSeq(p, 1, k) : k \in 1..(Len(p) - 1)}

\* The directories that exist now: every ancestor of a file, and env_dir
Dirs == UNION {Ancestors(f) : f \in Files \cup {env_dir \o <<"x">>}}

is_file(p) == p \in Files

\* The bytes of a file, by the file's path below the project root
Content(p) == as_posix(relative_to(p, application_path))

\* Path.rglob("*") and Path.glob("**/*"): everything below base, base excluded
rglob(base) == {p \in Files \cup Dirs : IsUnder(p, base)}

--------------------------------------------------------------------------
(* zipfile and hashlib *)

\* zlib's deflate of a file's bytes
Deflate(bytes) == <<"deflate", bytes>>

\* The local file record ZipFile.write puts on disk for one member
LocalRecord(name, date_time, bytes) ==
    [kind |-> "local", name |-> name, date_time |-> date_time, data |-> Deflate(bytes)]

\* The central directory ZipFile.close writes: one record per member of
\* filelist, then the end-of-central-directory record
RECURSIVE CentralDirectory(_)
CentralDirectory(filelist) ==
    IF filelist = <<>>
    THEN << [kind |-> "eocd", name |-> "", date_time |-> 0, data |-> <<>>] >>
    ELSE << [kind |-> "central", name |-> Head(filelist).name,
             date_time |-> Head(filelist).date_time, data |-> <<>>] >>
         \o CentralDirectory(Tail(filelist))

\* ZipFile(zip_path, "a") in place of "w": an existing archive is kept
ZipFileOpenAppend(disk) == [exists |-> TRUE, bytes |-> disk.bytes]

\* ZipFile(zip_path, "w"): the file is created, or truncated when it exists
ZipFileOpen(disk) == [exists |-> TRUE, bytes |-> <<>>]

\* ZipFile.write(file_path, arcname) on the bytes on disk
ZipWrite(disk, file_path, arcname) ==
    [disk EXCEPT !.bytes =
        Append(@, LocalRecord(as_posix(arcname), mtime[file_path], Content(file_path)))]

\* ZipFile.close() on the bytes on disk
ZipClose(disk, filelist) ==
    [disk EXCEPT !.bytes = @ \o CentralDirectory(filelist)]

\* ZipFile.namelist() of an archive's bytes: the names of its central directory
RECURSIVE namelist(_)
namelist(bytes) ==
    IF bytes = <<>> THEN <<>>
    ELSE IF Head(bytes).kind = "central"
         THEN <<Head(bytes).name>> \o namelist(Tail(bytes))
         ELSE namelist(Tail(bytes))

\* hashlib.sha256(bytes).hexdigest(), a collision-free digest of the bytes
sha256_hexdigest(bytes) == <<"sha256", bytes>>

--------------------------------------------------------------------------
(* The statements of the script, in program order *)

\* The hash taken inside the with block, before the archive is closed
ProgramHashInsideWith ==
    << "zip_open", "zip_walk", "hash", "zip_close", "resolve",
       "exe_env", "export_env",
       "select", "walk",
       "app_source", "app", "export_app",
       "done" >>

\* The source files selected before the execution environment is declared
ProgramSelectFirst ==
    << "zip_open", "zip_walk", "zip_close", "resolve", "hash",
       "select", "walk",
       "exe_env", "export_env",
       "app_source", "app", "export_app",
       "done" >>

Program ==
    << "zip_open", "zip_walk", "zip_close", "resolve", "hash",
       "exe_env", "export_env",
       "select", "walk",
       "app_source", "app", "export_app",
       "done" >>

StepIndex(step) == CHOOSE i \in 1..Len(Program) : Program[i] = step

\* The statement that runs after step
Succ(step) == Program[StepIndex(step) + 1]

\* The exception swallowed by an except clause: the script goes on
RaiseCaught(step) ==
    /\ pc' = Succ(step)
    /\ failedAt' = step

\* An exception nothing catches: the interpreter stops at the statement
Raise(step) ==
    /\ pc' = "failed"
    /\ failedAt' = step

PROJECT_NAME == "videolm"

Unset == <<>>

\* An output of a declared resource
Output(var, attr) == <<var, attr>>

Declared(var) == \E i \in 1..Len(resources) : resources[i].var = var

EnvExports ==
    << [name |-> "execution_environment_name", value |-> Output("exe_env", "name")],
       [name |-> "execution_environment_id", value |-> Output("exe_env", "id")],
       [name |-> "execution_environment_version_id", value |-> Output("exe_env", "version_id")] >>

\* The exports without the one of the application's id
AppExportsWithoutAppId ==
    << [name |-> "app_source_id", value |-> Output("app_source", "id")],
       [name |-> "app_source_version_id", value |-> Output("app_source", "version_id")],
       [name |-> "app_url", value |-> Output("app", "application_url")] >>

AppExports ==
    << [name |-> "app_source_id", value |-> Output("app_source", "id")],
       [name |-> "app_source_version_id", value |-> Output("app_source", "version_id")],
       [name |-> "app_id", value |-> Output("app", "id")],
       [name |-> "app_url", value |-> Output("app", "application_url")] >>

\* How many of the exports of list have run
ExportsDone(list) ==
    Cardinality({i \in 1..Len(list) : \E j \in 1..Len(exports) : exports[j] = list[i]})

--------------------------------------------------------------------------
(* The source file selector *)

IGNORED_PARTS ==
    { ".venv", "node_modules", "dist", "uploads", ".git", ".github",
      ".vscode", ".idea", "coverage", ".pytest_cache", "__pycache__" }

LauncherScripts == {"build-app.sh", "start-app.sh"}

\* any(part in IGNORED_PARTS for part in f.parts)
Ignored(f) == PartSet(f) \cap IGNORED_PARTS # {}

\* "infra" in f.parts and f.name not in {"build-app.sh", "start-app.sh"}
InfraSkipped(f) == "infra" \in PartSet(f) /\ Last(f) \notin LauncherScripts

\* Only the scripts directly in infra/ renamed, every other file keeps its path
ArchiveNameInfraOnly(f) ==
    IF Last(f) \in LauncherScripts /\ Parent(f) = BASE_DIR
    THEN Last(f)
    ELSE as_posix(f)

\* The second element of the pair appended for f
ArchiveName(f) ==
    IF Last(f) \in LauncherScripts
    THEN Last(f)
    ELSE as_posix(relative_to(f, application_path))

\* source_files after the loop body has run for f
LoopBody(f) ==
    IF ~is_file(f) THEN source_files
    ELSE IF Ignored(f) THEN source_files
    ELSE IF InfraSkipped(f) THEN source_files
    ELSE Append(source_files, <<as_posix(f), ArchiveName(f)>>)

--------------------------------------------------------------------------
(* The state before the script starts *)

Init ==
    /\ pc = "zip_open"
    /\ failedAt = "none"
    /\ scriptFile \in ScriptLocations
    /\ \E S \in SUBSET Candidates :
          /\ Cardinality(S) <= MaxFiles
          /\ tree = {scriptFile} \cup {Parent(Parent(scriptFile)) \o c : c \in S}
    /\ mtime = [f \in tree |-> 1]
    /\ zipDisk \in { [exists |-> FALSE, bytes |-> <<>>],
                     [exists |-> TRUE, bytes |-> StaleArchive] }
    /\ zipf = [open |-> FALSE, filelist |-> <<>>]
    /\ envSeen = {}
    /\ docker_context_path = ""
    /\ docker_context_hash = Unset
    /\ resources = <<>>
    /\ exports = <<>>
    /\ source_files = <<>>
    /\ seen = {}
    /\ run = "first"
    /\ prevArchive = <<>>
    /\ prevHash = Unset

--------------------------------------------------------------------------
(* The statements *)

\* line 16: with zipfile.ZipFile(zip_path, "w", zipfile.ZIP_DEFLATED) as zipf
ZipOpen ==
    /\ pc = "zip_open"
    /\ zipDisk' = ZipFileOpen(zipDisk)
    /\ zipf' = [open |-> TRUE, filelist |-> <<>>]
    /\ envSeen' = {}
    /\ pc' = Succ("zip_open")
    /\ UNCHANGED <<failedAt, scriptFile, tree, mtime, docker_context_path,
                   docker_context_hash, resources, exports, source_files, seen,
                   run, prevArchive, prevHash>>

\* lines 17-20: one iteration of the loop over env_dir.rglob("*")
EnvWalkStep ==
    /\ pc = "zip_walk"
    /\ zipf.open
    /\ \E file_path \in rglob(env_dir) \ envSeen :
          /\ envSeen' = envSeen \cup {file_path}
          /\ IF is_file(file_path)
             THEN /\ zipDisk' = ZipWrite(zipDisk, file_path, relative_to(file_path, env_dir))
                  /\ zipf' = [zipf EXCEPT !.filelist =
                        Append(@, [name |-> as_posix(relative_to(file_path, env_dir)),
                                   date_time |-> mtime[file_path]])]
             ELSE UNCHANGED <<zipDisk, zipf>>
    /\ UNCHANGED <<pc, failedAt, scriptFile, tree, mtime, docker_context_path,
                   docker_context_hash, resources, exports, source_files, seen,
                   run, prevArchive, prevHash>>

\* line 17: rglob is exhausted, the loop ends
EnvWalkEnd ==
    /\ pc = "zip_walk"
    /\ rglob(env_dir) \ envSeen = {}
    /\ pc' = Succ("zip_walk")
    /\ UNCHANGED <<failedAt, scriptFile, tree, mtime, zipDisk, zipf, envSeen,
                   docker_context_path, docker_context_hash, resources, exports,
                   source_files, seen, run, prevArchive, prevHash>>

\* line 16, leaving the with block: ZipFile.__exit__ closes the archive
ZipExit ==
    /\ pc = "zip_close"
    /\ zipf.open
    /\ zipDisk' = ZipClose(zipDisk, zipf.filelist)
    /\ zipf' = [zipf EXCEPT !.open = FALSE]
    /\ pc' = Succ("zip_close")
    /\ UNCHANGED <<failedAt, scriptFile, tree, mtime, envSeen, docker_context_path,
                   docker_context_hash, resources, exports, source_files, seen,
                   run, prevArchive, prevHash>>

\* line 23: docker_context_path = str(zip_path.resolve())
Resolve ==
    /\ pc = "resolve"
    /\ docker_context_path' = as_posix(zip_path)
    /\ pc' = Succ("resolve")
    /\ UNCHANGED <<failedAt, scriptFile, tree, mtime, zipDisk, zipf, envSeen,
                   docker_context_hash, resources, exports, source_files, seen,
                   run, prevArchive, prevHash>>

\* lines 26-27: the bytes at zip_path are read and hashed
Hash ==
    /\ pc = "hash"
    /\ zipDisk.exists
    /\ docker_context_hash' = sha256_hexdigest(zipDisk.bytes)
    /\ pc' = Succ("hash")
    /\ UNCHANGED <<failedAt, scriptFile, tree, mtime, zipDisk, zipf, envSeen,
                   docker_context_path, resources, exports, source_files, seen,
                   run, prevArchive, prevHash>>

\* lines 30-36: exe_env = datarobot.ExecutionEnvironment(...)
DeclareExeEnv ==
    /\ pc = "exe_env"
    /\ docker_context_path # ""
    /\ docker_context_hash # Unset
    /\ resources' = Append(resources,
          [var |-> "exe_env",
           type |-> "ExecutionEnvironment",
           resource_name |-> "[" \o PROJECT_NAME \o "]-exe-env",
           args |-> [programming_language |-> "other",
                     use_cases |-> <<"customApplication">>,
                     docker_context_path |-> docker_context_path,
                     description |-> <<"Custom execution environment for VideoLM with hash ",
                                       docker_context_hash>>]])
    /\ pc' = Succ("exe_env")
    /\ UNCHANGED <<failedAt, scriptFile, tree, mtime, zipDisk, zipf, envSeen,
                   docker_context_path, docker_context_hash, exports, source_files,
                   seen, run, prevArchive, prevHash>>

\* One pulumi.export statement of list, the statements at step
Export(step, list) ==
    /\ pc = step
    /\ LET k == ExportsDone(list) + 1 IN
          /\ k <= Len(list)
          /\ Declared(list[k].value[1])
          /\ exports' = Append(exports, list[k])
          /\ pc' = IF k = Len(list) THEN Succ(step) ELSE step
    /\ UNCHANGED <<failedAt, scriptFile, tree, mtime, zipDisk, zipf, envSeen,
                   docker_context_path, docker_context_hash, resources, source_files,
                   seen, run, prevArchive, prevHash>>

\* lines 39-41
ExportEnv == Export("export_env", EnvExports)

\* lines 48-49: application_path = BASE_DIR.parent; source_files = []
Select ==
    /\ pc = "select"
    /\ source_files' = <<>>
    /\ seen' = {}
    /\ pc' = Succ("select")
    /\ UNCHANGED <<failedAt, scriptFile, tree, mtime, zipDisk, zipf, envSeen,
                   docker_context_path, docker_context_hash, resources, exports,
                   run, prevArchive, prevHash>>

\* lines 50-79: one iteration of the loop over application_path.glob("**/*")
WalkStep ==
    /\ pc = "walk"
    /\ \E f \in rglob(application_path) \ seen :
          /\ seen' = seen \cup {f}
          /\ source_files' = LoopBody(f)
    /\ UNCHANGED <<pc, failedAt, scriptFile, tree, mtime, zipDisk, zipf, envSeen,
                   docker_context_path, docker_context_hash, resources, exports,
                   run, prevArchive, prevHash>>

\* line 50: glob is exhausted, the loop ends
WalkEnd ==
    /\ pc = "walk"
    /\ rglob(application_path) \ seen = {}
    /\ pc' = Succ("walk")
    /\ UNCHANGED <<failedAt, scriptFile, tree, mtime, zipDisk, zipf, envSeen,
                   docker_context_path, docker_context_hash, resources, exports,
                   source_files, seen, run, prevArchive, prevHash>>

\* lines 81-92: app_source = datarobot.ApplicationSource(...)
DeclareAppSource ==
    /\ pc = "app_source"
    /\ Declared("exe_env")
    /\ resources' = Append(resources,
          [var |-> "app_source",
           type |-> "ApplicationSource",
           resource_name |-> "[" \o PROJECT_NAME \o "]-app-source",
           args |-> [name |-> "[" \o PROJECT_NAME \o "]-app-source",
                     files |-> source_files,
                     base_environment_id |-> Output("exe_env", "id"),
                     base_environment_version_id |-> Output("exe_env", "version_id"),
                     resources |-> [resource_label |-> "cpu.8xlarge",
                                    replicas |-> 1,
                                    session_affinity |-> TRUE]]])
    /\ pc' = Succ("app_source")
    /\ UNCHANGED <<failedAt, scriptFile, tree, mtime, zipDisk, zipf, envSeen,
                   docker_context_path, docker_context_hash, exports, source_files,
                   seen, run, prevArchive, prevHash>>

\* lines 94-99: app = datarobot.CustomApplication(...)
DeclareApp ==
    /\ pc = "app"
    /\ Declared("app_source")
    /\ resources' = Append(resources,
          [var |-> "app",
           type |-> "CustomApplication",
           resource_name |-> "[" \o PROJECT_NAME \o "]-app",
           args |-> [name |-> "[" \o PROJECT_NAME \o "]-app",
                     source_version_id |-> Output("app_source", "version_id"),
                     allow_auto_stopping |-> FALSE]])
    /\ pc' = Succ("app")
    /\ UNCHANGED <<failedAt, scriptFile, tree, mtime, zipDisk, zipf, envSeen,
                   docker_context_path, docker_context_hash, exports, source_files,
                   seen, run, prevArchive, prevHash>>

\* lines 102-105
ExportApp == Export("export_app", AppExports)

\* Any statement can raise (an I/O error, a rejected resource argument).  No
\* statement of the script is inside a try block, so the exception ends the
\* run; raised inside the with block, it first closes the archive.
Fail ==
    /\ pc \notin {"done", "failed"}
    /\ Raise(pc)
    /\ IF zipf.open
       THEN /\ zipDisk' = ZipClose(zipDisk, zipf.filelist)
            /\ zipf' = [zipf EXCEPT !.open = FALSE]
       ELSE UNCHANGED <<zipDisk, zipf>>
    /\ UNCHANGED <<scriptFile, tree, mtime, envSeen, docker_context_path,
                   docker_context_hash, resources, exports, source_files, seen,
                   run, prevArchive, prevHash>>

Next ==
    \/ ZipOpen
    \/ EnvWalkStep
    \/ EnvWalkEnd
    \/ ZipExit
    \/ Resolve
    \/ Hash
    \/ DeclareExeEnv
    \/ ExportEnv
    \/ Select
    \/ WalkStep
    \/ WalkEnd
    \/ DeclareAppSource
    \/ DeclareApp
    \/ ExportApp
    \/ Fail

Spec == Init /\ [][Next]_vars

--------------------------------------------------------------------------
(* Two executions of the script over the same custom_environment *)

\* A file of custom_environment gets a new modification time between the two
\* executions (a fresh checkout, a touch); its bytes stay the same
Touch ==
    /\ pc = "done"
    /\ run = "first"
    /\ \E f \in {g \in tree : IsUnder(g, env_dir)} :
          /\ mtime[f] = 1
          /\ mtime' = [mtime EXCEPT ![f] = 2]
    /\ UNCHANGED <<pc, failedAt, scriptFile, tree, zipDisk, zipf, envSeen,
                   docker_context_path, docker_context_hash, resources, exports,
                   source_files, seen, run, prevArchive, prevHash>>

\* The script is executed again (the next pulumi up): a new interpreter, the
\* same file system
Rerun ==
    /\ pc = "done"
    /\ run = "first"
    /\ run' = "second"
    /\ prevArchive' = zipDisk.bytes
    /\ prevHash' = docker_context_hash
    /\ pc' = Program[1]
    /\ zipf' = [open |-> FALSE, filelist |-> <<>>]
    /\ envSeen' = {}
    /\ docker_context_path' = ""
    /\ docker_context_hash' = Unset
    /\ resources' = <<>>
    /\ exports' = <<>>
    /\ source_files' = <<>>
    /\ seen' = {}
    /\ UNCHANGED <<failedAt, scriptFile, tree, mtime, zipDisk>>

NextRerun ==
    \/ Next
    \/ Touch
    \/ Rerun

SpecRerun == Init /\ [][NextRerun]_vars

--------------------------------------------------------------------------
(* Properties *)

\* The regular files below custom_environment
EnvFiles == {f \in tree : IsUnder(f, env_dir)}

Occurrences(seq, x) == Cardinality({i \in 1..Len(seq) : seq[i] = x})

\* The statement at which the interpreter is, or at which it stopped
At == IF pc = "failed" THEN failedAt ELSE pc

ArchiveSteps == {"zip_open", "zip_walk", "zip_close"}

AfterSelection == {"app_source", "app", "export_app", "done"}

Listed(f) == \E i \in 1..Len(source_files) : source_files[i][1] = as_posix(f)

Resource(var) == resources[CHOOSE i \in 1..Len(resources) : resources[i].var = var]

\* C1: once the with block is left without an exception, the archive at
\* zip_path lists every regular file below custom_environment exactly once,
\* under its path relative to custom_environment, and lists nothing else.
C1_ZipHoldsExactlyTheFiles ==
    (At \notin ArchiveSteps) =>
        LET names == namelist(zipDisk.bytes) IN
        /\ \A f \in EnvFiles :
              Occurrences(names, JoinParts(SubSeq(f, Len(env_dir) + 1, Len(f)))) = 1
        /\ \A i \in 1..Len(names) :
              \E f \in EnvFiles : names[i] = JoinParts(SubSeq(f, Len(env_dir) + 1, Len(f)))
        /\ Len(names) = Cardinality(EnvFiles)

\* C1 witness: a finished run whose archive holds a top-level file and a file
\* of a subdirectory
C1_Witness ==
    /\ pc = "done"
    /\ Occurrences(namelist(zipDisk.bytes), "Dockerfile") = 1
    /\ Occurrences(namelist(zipDisk.bytes), "sub/run.sh") = 1

\* C2: the digest in the execution environment's description is the SHA-256
\* of the bytes of the closed archive at zip_path, and docker_context_path
\* names that same file.
C2_HashMatchesArchive ==
    Declared("exe_env") =>
        /\ ~zipf.open
        /\ zipDisk.exists
        /\ Last(zipDisk.bytes).kind = "eocd"
        /\ Resource("exe_env").args.description[2] = <<"sha256", zipDisk.bytes>>
        /\ Resource("exe_env").args.description[2] = docker_context_hash
        /\ Resource("exe_env").args.docker_context_path = "/" \o JoinParts(Tail(zip_path))

\* C2 witness: the execution environment is declared over an archive with members
C2_Witness ==
    /\ Declared("exe_env")
    /\ Len(namelist(zipDisk.bytes)) = 2

\* C3: a second execution over the same paths and contents of
\* custom_environment leaves the same archive bytes and the same hash as the
\* first, whatever the walk order and the modification times.
C3_ArchiveDeterministic ==
    (run = "second" /\ pc = "done") =>
        /\ zipDisk.bytes = prevArchive
        /\ docker_context_hash = prevHash

\* C4: after the walk, a regular file of the project that is not under infra/
\* is listed exactly when no part of its path relative to the project root is
\* an ignored name, and nothing but regular files is listed.
C4_SelectionByRelativeParts ==
    (pc \in AfterSelection) =>
        /\ \A f \in Files :
              (IsUnder(f, application_path) /\ ~IsUnder(f, application_path \o <<"infra">>)) =>
                  (Listed(f) <=> PartSet(relative_to(f, application_path)) \cap IGNORED_PARTS = {})
        /\ \A d \in Dirs : ~Listed(d)

\* C5: every element of source_files is the pair of a project file's absolute
\* POSIX path and its archive path: the bare name for build-app.sh and
\* start-app.sh, the POSIX path relative to the project root for the others.
C5_PairsOfAbsoluteAndArchivePath ==
    \A i \in 1..Len(source_files) :
        \E f \in Files :
            /\ f[1] = "/"
            /\ IsUnder(f, application_path)
            /\ source_files[i][1] = "/" \o JoinParts(Tail(f))
            /\ Last(f) \in {"build-app.sh", "start-app.sh"} =>
                  source_files[i][2] = Last(f)
            /\ Last(f) \notin {"build-app.sh", "start-app.sh"} =>
                  source_files[i][2] = JoinParts(SubSeq(f, Len(application_path) + 1, Len(f)))

\* C5 witness: a launcher script and an ordinary file are both listed
C5_Witness ==
    \E i, j \in 1..Len(source_files) :
        /\ source_files[i] = <<"/srv/videolm/infra/build-app.sh", "build-app.sh">>
        /\ source_files[j] = <<"/srv/videolm/app.py", "app.py">>

\* C6 as stated: a complete run has declared four resources and exported the
\* id of each.
C6_FourResources ==
    pc = "done" =>
        /\ Len(resources) = 4
        /\ \A i \in 1..Len(resources) :
              \E j \in 1..Len(exports) : exports[j].value = <<resources[i].var, "id">>

\* C6 amended: a complete run has declared three resources, the execution
\* environment, the application source and the custom application, and
\* exported the id of each.
C6_ThreeResources ==
    pc = "done" =>
        /\ Len(resources) = 3
        /\ resources[1].type = "ExecutionEnvironment"
        /\ resources[2].type = "ApplicationSource"
        /\ resources[3].type = "CustomApplication"
        /\ \A i \in 1..Len(resources) :
              \E j \in 1..Len(exports) : exports[j].value = <<resources[i].var, "id">>

\* C6 witness: a complete run with its seven exports
C6_Witness ==
    /\ pc = "done"
    /\ Len(exports) = 7
    /\ Len(resources) = 3

\* C7 as stated: the archive is complete before hashing, hashing before the
\* selection, and the selection before any resource is declared or any
\* output exported.
C7_SelectionBeforeAnyResource ==
    /\ docker_context_hash # Unset => (~zipf.open /\ envSeen = rglob(env_dir))
    /\ (seen # {} \/ source_files # <<>>) => docker_context_hash # Unset
    /\ (resources # <<>> \/ exports # <<>>) =>
          (At \in AfterSelection /\ seen = rglob(application_path))

\* C7 amended: the archive is complete before hashing; hashing is complete
\* before the execution environment is declared; the execution environment is
\* declared and its three outputs exported before the selection starts; the
\* selection is complete before the application source or the custom
\* application is declared or any of their outputs exported.
C7_ActualOrder ==
    /\ docker_context_hash # Unset => (~zipf.open /\ envSeen = rglob(env_dir))
    /\ resources # <<>> => (docker_context_hash # Unset /\ resources[1].var = "exe_env")
    /\ exports # <<>> => Declared("exe_env")
    /\ (seen # {} \/ source_files # <<>>) =>
          (Declared("exe_env") /\ ExportsDone(EnvExports) = Len(EnvExports))
    /\ (Declared("app_source") \/ Declared("app") \/ ExportsDone(AppExports) > 0) =>
          (At \in AfterSelection /\ seen = rglob(application_path))
    /\ Declared("app_source") => Resource("app_source").args.files = source_files

\* C7 witness: the walk of the project is under way with the execution
\* environment declared and exported
C7_Witness ==
    /\ pc = "walk"
    /\ seen # {}
    /\ seen # rglob(application_path)
    /\ Declared("exe_env")
    /\ Len(exports) = 3

\* C8: a listed file that lies under infra/ is infra/build-app.sh or
\* infra/start-app.sh.
C8_OnlyLaunchersFromInfra ==
    \A f \in Files :
        (Listed(f) /\ IsUnder(f, application_path \o <<"infra">>)) =>
            f \in {application_path \o <<"infra", "build-app.sh">>,
                   application_path \o <<"infra", "start-app.sh">>}

\* C9: once a statement has raised, the run has stopped there: no statement
\* can run, and the resources declared and outputs exported are those of
\* the statements before it; none when the archive build or the hashing raised.
C9_FailureStops ==
    failedAt # "none" =>
        /\ pc = "failed"
        /\ ~ENABLED Next
        /\ failedAt \in {"zip_open", "zip_walk", "zip_close", "resolve", "hash", "exe_env"} =>
              (resources = <<>> /\ exports = <<>>)
        /\ failedAt \in {"export_env", "select", "walk", "app_source"} =>
              (Len(resources) = 1 /\ ExportsDone(AppExports) = 0)
        /\ failedAt = "export_env" => Len(exports) < Len(EnvExports)
        /\ failedAt \in {"zip_open", "zip_walk", "zip_close", "resolve", "hash",
                         "exe_env", "export_env", "select"} =>
              (seen = {} /\ source_files = <<>>)
        /\ failedAt = "app" => (Len(resources) = 2 /\ ExportsDone(AppExports) = 0)
        /\ failedAt = "export_app" => ExportsDone(AppExports) < Len(AppExports)

\* C9 witness: the hashing raised and nothing was declared
C9_Witness ==
    /\ pc = "failed"
    /\ failedAt = "hash"
    /\ resources = <<>>
    /\ ~zipf.open

\* C10: no two elements of source_files have the same archive path.
C10_ArchivePathsDistinct ==
    \A i, j \in 1..Len(source_files) :
        i # j => source_files[i][2] # source_files[j][2]

====
